---- MODULE Spec2Model ----
(***************************************************************************)
(* Behavioural telemetry pipeline of the Parsons tutor:                    *)
(*   EventLogger          (src/src/lib/logging/EventLogger.ts)             *)
(*   ParsonsWidgetAdapter (src/src/lib/logging/ParsonsWidgetAdapter.ts)    *)
(*   useSimpleStorage     (src/src/hooks/useSimpleStorage.ts)              *)
(*   ValidationService    (src/unnamed/part_005)                           *)
(*                                                                         *)
(* Conventions.  A missing (undefined) string field is "", a missing or    *)
(* zero timestamp is 0 (both are falsy in the source), a missing event     *)
(* type is NoType.  Quotients are exact rationals [n, d] in lowest terms.  *)
(* Event objects live in a heap (logger.heap) and the event list holds     *)
(* references, as the JavaScript arrays do.                                *)
(***************************************************************************)
EXTENDS Integers, Sequences, FiniteSets, TLC

VARIABLES
  now,          \* the wall clock read by Date.now()
  logger,       \* the EventLogger instance (with the event objects it refers to)
  snap,         \* a snapshot a caller keeps, with the values it showed when returned
  pc,           \* position in a scripted event sequence; the page's own state
  widget,       \* the embedded puzzle widget, as far as the adapter touches it
  trace,        \* what the last adapter operation did (for the properties)
  saver,        \* useSimpleStorage: isSaving, isSavingRef, pending effect, requests
  grader        \* ValidationService: settings, candidate and the last verdict

vars == <<now, logger, snap, pc, widget, trace, saver, grader>>

----------------------------------------------------------------------------
(* Bounds and program constants *)

Window == 1000
Tick == 500
MaxTicks == 3
MaxEvents == 3
MaxHistory == 3
MaxSaves == 4
MaxSession == 7
MaxDedup == 6
MaxChecks == 3
MaxBlocks == 3
MaxIndent == 1
MaxLines == 2
IndentUnit == 4

StartClock == Window
MaxClock == StartClock + MaxTicks * Tick

----------------------------------------------------------------------------
(* Arithmetic helpers *)

Abs(x) == IF x < 0 THEN -x ELSE x

Max2(a, b) == IF a >= b THEN a ELSE b

Min2(a, b) == IF a <= b THEN a ELSE b

RECURSIVE GCD(_, _)
GCD(a, b) == IF b = 0 THEN a ELSE GCD(b, a % b)

\* the quotient n / d of the source (d > 0), in lowest terms
Rat(n, d) ==
  LET g == GCD(Abs(n), d)
  IN  IF n = 0 THEN [n |-> 0, d |-> 1] ELSE [n |-> n \div g, d |-> d \div g]

RatLeq(p, q) == p.n * q.d <= q.n * p.d

RECURSIVE SeqMin(_)
SeqMin(s) == IF Len(s) = 1 THEN s[1] ELSE Min2(s[1], SeqMin(Tail(s)))

RECURSIVE SeqMax(_)
SeqMax(s) == IF Len(s) = 1 THEN s[1] ELSE Max2(s[1], SeqMax(Tail(s)))

\* the sum of the differences of neighbouring elements (EventLogger.ts:124-127)
RECURSIVE SumDiffs(_)
SumDiffs(ts) ==
  IF Len(ts) < 2 THEN 0 ELSE (ts[2] - ts[1]) + SumDiffs(Tail(ts))

----------------------------------------------------------------------------
(* Event model (types.ts, as used by EventLogger.ts) *)

NoType == "undefined"

ManipulationTypes == {"moveOutput", "addOutput", "removeOutput", "moveInput"}

ActionTypes == ManipulationTypes \cup {"feedback", "toggle"}

HintTypes == {"X-Hint.Widget", "X-Hint.Socratic"}

EventTypes ==
  {"init", "feedback", "toggle", "problem_solved", "unknown"}
    \cup ManipulationTypes \cup HintTypes

\* an event object: metadata.success is "true", "false" or "none" (absent);
\* metadata.errors is the list of the error types
Event(t, ty, out, succ, errs) ==
  [time |-> t, type |-> ty, output |-> out, success |-> succ, errors |-> errs]

----------------------------------------------------------------------------
(* EventLogger *)

initializeFeatures ==
  [ totalTime |-> 0, timeToFirstFeedback |-> 0, avgTimeBetweenActions |-> Rat(0, 1),
    manipulationCount |-> 0, feedbackCount |-> 0,
    manipulationToFeedbackRatio |-> Rat(0, 1),
    uniqueStates |-> 0, stateChangeRate |-> Rat(0, 1), stateRevisits |-> 0,
    maxVisitsToState |-> 0, successRate |-> Rat(0, 1), consecutiveFailures |-> 0,
    incorrectPositionErrors |-> 0, incorrectIndentErrors |-> 0,
    widgetHintCount |-> 0, socraticHintCount |-> 0, totalHintCount |-> 0,
    hintsPerAction |-> Rat(0, 1), timeToFirstHint |-> 0,
    avgTimeBetweenHints |-> Rat(0, 1) ]

\* new EventLogger(...) at clock value t
NewLogger(t) ==
  [ heap |-> <<>>, events |-> <<>>, features |-> initializeFeatures,
    stateHistory |-> <<>>, sessionStartTime |-> t, lastEventTime |-> t ]

\* this.events, dereferenced
EventList(L) == [i \in 1..Len(L.events) |-> L.heap[L.events[i]]]

TimesOf(evs) == [i \in 1..Len(evs) |-> evs[i].time]

IsInit(e) == e.type = "init"

IsFeedback(e) == e.type = "feedback"

IsHint(e) == e.type \in HintTypes

IsAction(e) == e.type \in ActionTypes

\* a start time that is the earliest timestamp of all events, init or not
getActualStartTimeEarliest(L) ==
  IF Len(L.events) = 0 THEN L.sessionStartTime ELSE SeqMin(TimesOf(EventList(L)))

getActualStartTime(L) ==
  LET evs == EventList(L)
      initEvents == SelectSeq(evs, IsInit)
  IN  IF Len(evs) = 0 THEN L.sessionStartTime
      ELSE IF Len(initEvents) > 0 THEN SeqMin(TimesOf(initEvents))
      ELSE SeqMin(TimesOf(evs))

\* the longest run of success === false (EventLogger.ts:185-195)
RECURSIVE MaxStreak(_, _, _)
MaxStreak(fb, currentStreak, maxStreak) ==
  IF fb = <<>> THEN maxStreak
  ELSE IF Head(fb).success = "false"
       THEN MaxStreak(Tail(fb), currentStreak + 1, Max2(maxStreak, currentStreak + 1))
       ELSE MaxStreak(Tail(fb), 0, maxStreak)

IsSuccess(e) == e.success = "true"

IsPositionError(x) == x = "incorrectPosition"

IsIndentError(x) == x = "incorrectIndent"

\* updateSuccessPatterns with the streak scanned over the full event list
updateSuccessPatternsAllEvents(L, f, ev) ==
  LET feedbackEvents == SelectSeq(EventList(L), IsFeedback)
      successfulAttempts == Len(SelectSeq(feedbackEvents, IsSuccess))
  IN  [f EXCEPT
        !.successRate = Rat(successfulAttempts, Len(feedbackEvents)),
        !.consecutiveFailures = MaxStreak(EventList(L), 0, 0),
        !.incorrectPositionErrors = @ + Len(SelectSeq(ev.errors, IsPositionError)),
        !.incorrectIndentErrors = @ + Len(SelectSeq(ev.errors, IsIndentError))]

\* updateSuccessPatterns with the quotient of successRate inverted
updateSuccessPatternsInverted(L, f, ev) ==
  LET feedbackEvents == SelectSeq(EventList(L), IsFeedback)
      successfulAttempts == Len(SelectSeq(feedbackEvents, IsSuccess))
  IN  [f EXCEPT
        !.successRate = Rat(Len(feedbackEvents), Max2(1, successfulAttempts)),
        !.consecutiveFailures = MaxStreak(feedbackEvents, 0, 0),
        !.incorrectPositionErrors = @ + Len(SelectSeq(ev.errors, IsPositionError)),
        !.incorrectIndentErrors = @ + Len(SelectSeq(ev.errors, IsIndentError))]

updateSuccessPatterns(L, f, ev) ==
  LET feedbackEvents == SelectSeq(EventList(L), IsFeedback)
      successfulAttempts == Len(SelectSeq(feedbackEvents, IsSuccess))
  IN  [f EXCEPT
        !.successRate = Rat(successfulAttempts, Len(feedbackEvents)),
        !.consecutiveFailures = MaxStreak(feedbackEvents, 0, 0),
        !.incorrectPositionErrors = @ + Len(SelectSeq(ev.errors, IsPositionError)),
        !.incorrectIndentErrors = @ + Len(SelectSeq(ev.errors, IsIndentError))]

updateHintFeatures(L, f, ev, actualStartTime) ==
  LET f1 == IF ev.type = "X-Hint.Widget"
              THEN [f EXCEPT !.widgetHintCount = @ + 1]
            ELSE IF ev.type = "X-Hint.Socratic"
              THEN [f EXCEPT !.socraticHintCount = @ + 1]
            ELSE f
      f2 == [f1 EXCEPT !.totalHintCount = f1.widgetHintCount + f1.socraticHintCount]
      actionEvents == SelectSeq(EventList(L), IsAction)
      f3 == [f2 EXCEPT !.hintsPerAction =
               IF Len(actionEvents) > 0
                 THEN Rat(f2.totalHintCount, Len(actionEvents)) ELSE Rat(0, 1)]
      f4 == IF IsHint(ev) /\ f3.timeToFirstHint = 0
              THEN [f3 EXCEPT !.timeToFirstHint = ev.time - actualStartTime]
              ELSE f3
      hintEvents == SelectSeq(EventList(L), IsHint)
  IN  IF Len(hintEvents) > 1
        THEN [f4 EXCEPT !.avgTimeBetweenHints =
                Rat(SumDiffs(TimesOf(hintEvents)), Len(hintEvents) - 1)]
        ELSE f4

\* CountActions that takes an event without a type of the vocabulary for a
\* manipulation
CountActionsUntyped(f, ev) ==
  LET f1 == IF ev.type \in ManipulationTypes \/ ev.type \notin EventTypes
              THEN [f EXCEPT !.manipulationCount = @ + 1] ELSE f
      f2 == IF ev.type = "feedback" THEN [f1 EXCEPT !.feedbackCount = @ + 1] ELSE f1
  IN  [f2 EXCEPT !.manipulationToFeedbackRatio =
         Rat(f2.manipulationCount, Max2(1, f2.feedbackCount))]

\* CountActions with the ratio taken from the counters before the event
CountActionsStale(f, ev) ==
  LET f1 == IF ev.type \in ManipulationTypes
              THEN [f EXCEPT !.manipulationCount = @ + 1] ELSE f
      f2 == IF ev.type = "feedback" THEN [f1 EXCEPT !.feedbackCount = @ + 1] ELSE f1
  IN  [f2 EXCEPT !.manipulationToFeedbackRatio =
         Rat(f.manipulationCount, Max2(1, f.feedbackCount))]

\* the action counters and their ratio (EventLogger.ts:132-147)
CountActions(f, ev) ==
  LET f1 == IF ev.type \in ManipulationTypes
              THEN [f EXCEPT !.manipulationCount = @ + 1] ELSE f
      f2 == IF ev.type = "feedback" THEN [f1 EXCEPT !.feedbackCount = @ + 1] ELSE f1
  IN  [f2 EXCEPT !.manipulationToFeedbackRatio =
         Rat(f2.manipulationCount, Max2(1, f2.feedbackCount))]

\* a histogram that files every visit under a new key
VisitAlwaysNew(sh, out) == Append(sh, [key |-> out, count |-> 1])

\* the state-visit histogram after an event carrying `out` (EventLogger.ts:151-152)
Visit(sh, out) ==
  IF \E i \in 1..Len(sh) : sh[i].key = out
    THEN [i \in 1..Len(sh) |->
            IF sh[i].key = out THEN [sh[i] EXCEPT !.count = @ + 1] ELSE sh[i]]
    ELSE Append(sh, [key |-> out, count |-> 1])

CountsOf(sh) == [i \in 1..Len(sh) |-> sh[i].count]

IsRevisited(c) == c > 1

\* state-exploration features that take every visited state for revisited
ExploreFeaturesAllRevisited(f, sh, nEvents) ==
  [f EXCEPT
    !.uniqueStates = Len(sh),
    !.stateChangeRate = Rat(Len(sh), nEvents),
    !.stateRevisits = Len(sh),
    !.maxVisitsToState = IF Len(sh) > 0 THEN SeqMax(CountsOf(sh)) ELSE 0]

\* the state-exploration features (EventLogger.ts:154-164)
ExploreFeatures(f, sh, nEvents) ==
  [f EXCEPT
    !.uniqueStates = Len(sh),
    !.stateChangeRate = Rat(Len(sh), nEvents),
    !.stateRevisits = Len(SelectSeq(CountsOf(sh), IsRevisited)),
    !.maxVisitsToState = IF Len(sh) > 0 THEN SeqMax(CountsOf(sh)) ELSE 0]

\* updateFeatures(event): L already holds the event; returns L with the new
\* features and histogram
updateFeatures(L, ev) ==
  LET actualStartTime == getActualStartTime(L)
      timeSinceStart == ev.time - actualStartTime
      f1 == [L.features EXCEPT !.totalTime = timeSinceStart]
      f2 == IF ev.type = "feedback" /\ f1.timeToFirstFeedback = 0
              THEN [f1 EXCEPT !.timeToFirstFeedback = timeSinceStart] ELSE f1
      f3 == IF Len(L.events) > 1
              THEN [f2 EXCEPT !.avgTimeBetweenActions =
                      Rat(SumDiffs(TimesOf(EventList(L))), Len(L.events) - 1)]
              ELSE f2
      f4 == CountActions(f3, ev)
      sh == IF ev.output # "" THEN Visit(L.stateHistory, ev.output) ELSE L.stateHistory
      f5 == IF ev.output # "" THEN ExploreFeatures(f4, sh, Len(L.events)) ELSE f4
      f6 == IF ev.type = "feedback" THEN updateSuccessPatterns(L, f5, ev) ELSE f5
      f7 == updateHintFeatures(L, f6, ev, actualStartTime)
  IN  [L EXCEPT !.features = f7, !.stateHistory = sh]

\* a stamp that overwrites the timestamp the event carries
StampTimeAlways(e, t) == [e EXCEPT !.time = t]

\* if (!event.time) event.time = Date.now()   (EventLogger.ts:68-70)
StampTime(e, t) == IF e.time = 0 THEN [e EXCEPT !.time = t] ELSE e

\* the body of logEvent(event), on the event object `ref` of the heap, at
\* clock value t   (EventLogger.ts:67-75)
logEventBody(L, ref, t) ==
  LET stamped == StampTime(L.heap[ref], t)
      L1 == [L EXCEPT !.heap[ref] = stamped, !.events = Append(@, ref)]
      L2 == updateFeatures(L1, stamped)
  IN  [L2 EXCEPT !.lastEventTime = stamped.time]

\* a logEvent that drops an init event when the history already holds one
logEventOnceInit(L, ref, t) ==
  IF IsInit(L.heap[ref]) /\ Len(SelectSeq(EventList(L), IsInit)) > 0
    THEN L ELSE logEventBody(L, ref, t)

logEvent(L, ref, t) == logEventBody(L, ref, t)

\* logEvent on a freshly created event object
logNew(L, e, t) ==
  logEvent([L EXCEPT !.heap = Append(@, e)], Len(L.heap) + 1, t)

\* a snapshot whose endTime is the latest timestamp in the history
getSessionSnapshotLatest(L) ==
  [ startTime |-> getActualStartTime(L),
    endTime |-> IF Len(L.events) = 0 THEN L.lastEventTime
                ELSE SeqMax(TimesOf(EventList(L))),
    events |-> L.events, features |-> L.features, stateHistory |-> L.stateHistory ]

\* getSessionSnapshot(): events is a new array of the same object references
getSessionSnapshot(L) ==
  [ startTime |-> getActualStartTime(L), endTime |-> L.lastEventTime,
    events |-> L.events, features |-> L.features, stateHistory |-> L.stateHistory ]

\* what a holder of snapshot s reads from it, given the heap as it is now
SnapshotView(s, heap) ==
  [s EXCEPT !.events = [i \in 1..Len(s.events) |-> heap[s.events[i]]]]

----------------------------------------------------------------------------
(* Strings of the native log entries: a string is a sequence of characters *)

Lower(c) ==
  CASE c = "A" -> "a" [] c = "C" -> "c" [] c = "D" -> "d" [] c = "M" -> "m"
    [] c = "R" -> "r" [] OTHER -> c

\* String.prototype.toLowerCase
toLowerCase(str) == [i \in 1..Len(str) |-> Lower(str[i])]

\* String.prototype.includes
Includes(str, word) ==
  \E i \in 0..(Len(str) - Len(word)) :
     \A j \in 1..Len(word) : str[i + j] = word[j]

WordMove == <<"m", "o", "v", "e">>
WordAdd == <<"a", "d", "d">>
WordRemove == <<"r", "e", "m", "o", "v", "e">>
WordDelete == <<"d", "e", "l", "e", "t", "e">>
WordFeedback == <<"f", "e", "e", "d", "b", "a", "c", "k">>
WordCheck == <<"c", "h", "e", "c", "k">>

----------------------------------------------------------------------------
(* ParsonsWidgetAdapter *)

\* a native log entry: type "" and action <<>> are absent fields, time 0 is
\* an entry without a Date, output "" an entry without a hash
Entry(ty, act, t, out, succ, errs) ==
  [type |-> ty, action |-> act, time |-> t, output |-> out,
   success |-> succ, errors |-> errs]

mapActionToType(action) ==
  LET actionLower == toLowerCase(action)
  IN  IF Includes(actionLower, WordMove) THEN "moveOutput"
      ELSE IF Includes(actionLower, WordAdd) THEN "addOutput"
      ELSE IF Includes(actionLower, WordRemove) \/ Includes(actionLower, WordDelete)
        THEN "removeOutput"
      ELSE IF Includes(actionLower, WordFeedback) \/ Includes(actionLower, WordCheck)
        THEN "feedback"
      ELSE "unknown"

\* the event type captureWidgetEvent derives (ParsonsWidgetAdapter.ts:209-214);
\* "" when neither a type nor an action is there
EntryType(entry) ==
  IF entry.type # "" THEN entry.type
  ELSE IF entry.action # <<>> THEN mapActionToType(entry.action)
  ELSE ""

\* captureWidgetEvent(widgetLogEntry) on logger L, widget W, at clock value t
captureWidgetEvent(L, W, entry, t) ==
  LET eventType == EntryType(entry)
      isFb == eventType = "feedback"
  IN  logNew(L,
        Event(IF entry.time # 0 THEN entry.time ELSE t,
              IF eventType # "" THEN eventType ELSE "unknown",
              IF entry.output # "" THEN entry.output ELSE W.hash,
              IF isFb THEN entry.success ELSE "none",
              IF isFb THEN entry.errors ELSE <<>>),
        t)

\* a wrapper that also captures the entry from the widget's user_actions
\* array (the monitoring the source has removed)
wrappedAddLogEntryMonitored(L, W, entry, t) ==
  [ logger |-> captureWidgetEvent(captureWidgetEvent(L, W, entry, t), W, entry, t),
    widget |-> [W EXCEPT
                  !.lastErrorData =
                     IF entry.type = "feedback" THEN entry.errors ELSE @,
                  !.userActions = @ + 1,
                  !.received = entry] ]

\* the wrapped addLogEntry (ParsonsWidgetAdapter.ts:58-86): the error data
\* are kept, the original method runs (it appends to user_actions the entry
\* it received), the entry is captured
wrappedAddLogEntry(L, W, entry, t) ==
  [ logger |-> captureWidgetEvent(L, W, entry, t),
    widget |-> [W EXCEPT
                  !.lastErrorData =
                     IF entry.type = "feedback" THEN entry.errors ELSE @,
                  !.userActions = @ + 1,
                  !.received = entry] ]

\* the last three events of the history: events.slice(-3)
RecentEvents(L) ==
  LET evs == EventList(L)
  IN  SubSeq(evs, Max2(1, Len(evs) - 2), Len(evs))

\* a dedup test that takes any feedback event, however old
hasFeedbackEventAnyAge(L, t) ==
  \E i \in 1..Len(RecentEvents(L)) : RecentEvents(L)[i].type = "feedback"

\* recentEvents.some(e => e.type === 'feedback' && |e.time - Date.now()| < 1000)
hasFeedbackEvent(L, t) ==
  \E i \in 1..Len(RecentEvents(L)) :
     /\ RecentEvents(L)[i].type = "feedback"
     /\ Abs(RecentEvents(L)[i].time - t) < Window

\* a wrapper that records its feedback event without looking for a duplicate
recordFeedbackAlways(L, W, fb, t) ==
  logNew(L, Event(t, "feedback", W.hash, fb.success, fb.errors), t)

\* the wrapped getFeedback after the original method has returned fb
\* (ParsonsWidgetAdapter.ts:140-166)
recordFeedback(L, W, fb, t) ==
  IF ~hasFeedbackEvent(L, t)
    THEN logNew(L, Event(t, "feedback", W.hash, fb.success, fb.errors), t)
    ELSE L

\* the wrapped getFeedback (ParsonsWidgetAdapter.ts:134-169) after the
\* original method has returned fb: the logger it leaves and what it returns
wrappedGetFeedback(L, W, fb, t) ==
  [ logger |-> recordFeedback(L, W, fb, t), result |-> fb ]

\* logInitialState()
logInitialState(L, W, t) ==
  IF Len(SelectSeq(SnapshotView(getSessionSnapshot(L), L.heap).events, IsInit)) > 0
    THEN L
    ELSE logNew(L, Event(t, "init", W.hash, "none", <<>>), t)

\* a getCurrentState whose solutionHash() call throws: the catch returns ''
getCurrentStateFailed(W) == ""

\* getCurrentState(): solutionHash() || ''
getCurrentState(W) == W.hash

\* logManualEvent(eventType, metadata)
logManualEvent(L, W, eventType, t) ==
  logNew(L, Event(t, eventType, getCurrentState(W), "none", <<>>), t)

\* new ParsonsWidgetAdapter(widget, ...) at clock value t: the logger is
\* created, the methods the widget has are wrapped, the init event is logged
NewAdapter(W, t) == logInitialState(NewLogger(t), W, t)

----------------------------------------------------------------------------
(* ValidationService.validateSolutionLocally.  A line is a sequence of     *)
(* characters; the marker #distractor is one element of it.                *)

NewLine == "\n"

Marker == "#distractor"

IsSpace(c) == c \in {" ", "\t"}

\* String.prototype.split('\n')
RECURSIVE SplitLines(_, _)
SplitLines(text, current) ==
  IF text = <<>> THEN <<current>>
  ELSE IF Head(text) = NewLine THEN <<current>> \o SplitLines(Tail(text), <<>>)
  ELSE SplitLines(Tail(text), Append(current, Head(text)))

RECURSIVE TrimStart(_)
TrimStart(line) ==
  IF line # <<>> /\ IsSpace(Head(line)) THEN TrimStart(Tail(line)) ELSE line

RECURSIVE TrimEnd(_)
TrimEnd(line) ==
  IF line # <<>> /\ IsSpace(line[Len(line)])
    THEN TrimEnd(SubSeq(line, 1, Len(line) - 1)) ELSE line

\* String.prototype.trim
Trim(line) == TrimEnd(TrimStart(line))

\* a depth that counts every leading blank as a level
getIndentLevelPerBlank(line) == Len(line) - Len(TrimStart(line))

\* getIndentLevel(line): floor(length of /^(\s*)/ divided by 4)
getIndentLevel(line) == (Len(line) - Len(TrimStart(line))) \div IndentUnit

\* the lines of settings.initial that are neither blank nor distractors
KeepsLine(line) == Trim(line) # <<>> /\ ~Includes(line, <<Marker>>)

CorrectLines(initial) == SelectSeq(SplitLines(initial, <<>>), KeepsLine)

Verdict(ok, kind, line, expected, actual) ==
  [isCorrect |-> ok, kind |-> kind, line |-> line, expected |-> expected, actual |-> actual]

\* the loop of validateSolutionLocally from position i on (part_005:131-162)
RECURSIVE CompareFrom(_, _, _, _)
CompareFrom(i, correctLines, solution, canIndent) ==
  IF i > Len(correctLines) THEN Verdict(TRUE, "correct", 0, 0, 0)
  ELSE IF Trim(solution[i]) # Trim(correctLines[i])
    THEN Verdict(FALSE, "content", i, 0, 0)
  ELSE IF canIndent /\ getIndentLevel(solution[i]) # getIndentLevel(correctLines[i])
    THEN Verdict(FALSE, "indentation", i,
                 getIndentLevel(correctLines[i]), getIndentLevel(solution[i]))
  ELSE CompareFrom(i + 1, correctLines, solution, canIndent)

\* validateSolutionLocally(settings, solution): the verdict and the diagnostic
\* its details text renders (for a length diagnostic: the two line counts)
validateSolutionLocally(initial, canIndent, solution) ==
  LET correctLines == CorrectLines(initial)
  IN  IF Len(solution) # Len(correctLines)
        THEN Verdict(FALSE, "length", 0, Len(correctLines), Len(solution))
        ELSE CompareFrom(1, correctLines, solution, canIndent)

----------------------------------------------------------------------------
(* The API route for local validation (src/unnamed/part_002) *)

IsNonEmpty(line) == line # <<>>

TrimAll(lines) == [i \in 1..Len(lines) |-> Trim(lines[i])]

\* the loop of the handler from position i on (part_002:61-73)
RECURSIVE HandlerCompareFrom(_, _, _)
HandlerCompareFrom(i, correctLines, cleanedUserSolution) ==
  IF i > Len(correctLines) THEN Verdict(TRUE, "correct", 0, 0, 0)
  ELSE IF cleanedUserSolution[i] # correctLines[i]
    THEN Verdict(FALSE, "content", i, 0, 0)
  ELSE HandlerCompareFrom(i + 1, correctLines, cleanedUserSolution)

\* a handler that keeps the canonical lines as they are written
handlerUntrimmed(initial, solution) ==
  LET correctLines == CorrectLines(initial)
      cleanedUserSolution == SelectSeq(TrimAll(solution), IsNonEmpty)
  IN  IF Len(cleanedUserSolution) # Len(correctLines)
        THEN Verdict(FALSE, "length", 0, Len(correctLines), Len(cleanedUserSolution))
        ELSE HandlerCompareFrom(1, correctLines, cleanedUserSolution)

\* handler(req, res) for a POST with settings and solution: the body of the
\* 200 response (part_002:33-73)
handler(initial, solution) ==
  LET correctLines == TrimAll(CorrectLines(initial))
      cleanedUserSolution == SelectSeq(TrimAll(solution), IsNonEmpty)
  IN  IF Len(cleanedUserSolution) # Len(correctLines)
        THEN Verdict(FALSE, "length", 0, Len(correctLines), Len(cleanedUserSolution))
        ELSE HandlerCompareFrom(1, correctLines, cleanedUserSolution)

----------------------------------------------------------------------------
(* Values of the variables a specification does not use *)

NoSnap == [taken |-> FALSE]

NoWidget == [hash |-> "-"]

NoTrace == [op |-> "none", calls |-> <<>>]

NoSaver == [isSavingRef |-> FALSE]

NoGrader == [graded |-> FALSE]

----------------------------------------------------------------------------
(* SpecLogger: a freshly constructed EventLogger fed by logEvent calls.    *)
(* The events carry no timestamp and are stamped with the clock, which     *)
(* moves on by one tick between two calls.                                 *)

Outputs == {"", "s1"}

SuccessValues == {"true", "false", "none"}

InitLogger ==
  /\ now = StartClock
  /\ logger = NewLogger(StartClock)
  /\ snap = NoSnap
  /\ pc = 0
  /\ widget = NoWidget
  /\ trace = NoTrace
  /\ saver = NoSaver
  /\ grader = NoGrader

\* the clock at the next call
NextClock == IF now < MaxClock THEN now + Tick ELSE now

\* logEvent(e) on a new event object
Ingest(e) ==
  /\ Len(logger.events) < MaxEvents
  /\ logger' = logNew(logger, e, now)
  /\ trace' = [op |-> "logEvent", calls |-> Append(trace.calls, e.type)]
  /\ now' = NextClock
  /\ UNCHANGED <<snap, pc, widget, saver, grader>>

\* a type outside the vocabulary (the one of ParsonsWidget.tsx:399)
UnrecognizedTypes == {"widgetHint"}

\* logEvent of an event that is not a feedback event (its metadata is not read)
LogEvent ==
  \E ty \in (EventTypes \cup UnrecognizedTypes \cup {NoType}) \ {"feedback"},
     out \in Outputs :
    Ingest(Event(0, ty, out, "none", <<>>))

\* logEvent of a feedback event
LogFeedback ==
  \E out \in Outputs, succ \in SuccessValues :
    Ingest(Event(0, "feedback", out, succ, <<>>))

NextLogger == LogEvent \/ LogFeedback

SpecLogger == InitLogger /\ [][NextLogger]_vars

\* the init events of the stored history, as getSessionSnapshot().events shows them
InitEventsStored ==
  SelectSeq(SnapshotView(getSessionSnapshot(logger), logger.heap).events, IsInit)

\* C2 (as stated): two init events ingested into a fresh EventLogger leave
\* exactly one init event in the stored history.
C2_ExactlyOneInit ==
  trace.calls = <<"init", "init">> => Len(InitEventsStored) = 1

\* C2 (amended): two init events ingested into a fresh EventLogger are both
\* kept: the stored history holds exactly two init events.
C2_BothInitsKept ==
  trace.calls = <<"init", "init">> => Len(InitEventsStored) = 2

C2_Witness ==
  /\ trace.calls = <<"init", "init">>
  /\ Len(getSessionSnapshot(logger).events) = 2

RatIn01(r) == RatLeq(Rat(0, 1), r) /\ RatLeq(r, Rat(1, 1))

\* C5: across logEvent calls manipulationCount and feedbackCount never
\* decrease, and successRate is always within [0, 1].
C5_Monotone ==
  [][ /\ logger'.features.manipulationCount >= logger.features.manipulationCount
      /\ logger'.features.feedbackCount >= logger.features.feedbackCount
      /\ RatIn01(logger.features.successRate)
      /\ RatIn01(logger'.features.successRate) ]_vars

C5_Witness ==
  /\ logger.features.manipulationCount >= 1
  /\ logger.features.feedbackCount = 2
  /\ logger.features.successRate = Rat(1, 2)

\* C6: after every logEvent manipulationToFeedbackRatio equals
\* manipulationCount / max(1, feedbackCount); while no feedback event has
\* been ingested it equals manipulationCount.
C6_Ratio ==
  /\ logger.features.manipulationToFeedbackRatio =
       Rat(logger.features.manipulationCount, Max2(1, logger.features.feedbackCount))
  /\ (\A i \in 1..Len(trace.calls) : trace.calls[i] # "feedback")
       => logger.features.manipulationToFeedbackRatio =
            Rat(Len(SelectSeq(trace.calls, LAMBDA ty : ty \in ManipulationTypes)), 1)

C6_Witness ==
  /\ logger.features.manipulationCount = 2
  /\ logger.features.feedbackCount = 0
  /\ logger.features.manipulationToFeedbackRatio = Rat(2, 1)

\* The features recomputed from scratch over an event sequence: the session
\* start is the least init timestamp (the least timestamp when there is no
\* init event), a first-occurrence time is the time of the first event of
\* the kind minus the session start, a mean interval is the span divided by
\* the number of intervals.
RescanStart(evs) ==
  LET inits == {i \in 1..Len(evs) : evs[i].type = "init"}
      from == IF inits # {} THEN inits ELSE 1..Len(evs)
  IN  CHOOSE t \in {evs[i].time : i \in from} :
        \A i \in from : t <= evs[i].time

RescanCount(evs, types) == Cardinality({i \in 1..Len(evs) : evs[i].type \in types})

RescanFirst(evs, types) ==
  LET at == {i \in 1..Len(evs) : evs[i].type \in types}
  IN  IF at = {} THEN 0
      ELSE evs[CHOOSE i \in at : \A j \in at : i <= j].time - RescanStart(evs)

RescanMeanGap(evs, types) ==
  LET at == {i \in 1..Len(evs) : evs[i].type \in types}
      first == CHOOSE i \in at : \A j \in at : i <= j
      last == CHOOSE i \in at : \A j \in at : j <= i
  IN  IF Cardinality(at) > 1
        THEN Rat(evs[last].time - evs[first].time, Cardinality(at) - 1)
        ELSE Rat(0, 1)

RescanVisits(evs, out) == Cardinality({i \in 1..Len(evs) : evs[i].output = out})

RescanStates(evs) == {evs[i].output : i \in 1..Len(evs)} \ {""}

\* the longest run of failed checks among the feedback events
RescanStreak(evs) ==
  LET fb == SelectSeq(evs, LAMBDA e : e.type = "feedback")
      IsRun(i, k) == \A j \in i..(i + k - 1) : fb[j].success = "false"
  IN  CHOOSE k \in 0..Len(fb) :
        /\ \E i \in 1..(Len(fb) - k + 1) : IsRun(i, k)
        /\ \A m \in (k + 1)..Len(fb) : ~\E i \in 1..(Len(fb) - m + 1) : IsRun(i, m)

RescanErrors(evs, kind) ==
  LET fbAt == {i \in 1..Len(evs) : evs[i].type = "feedback"}
  IN  Cardinality({p \in fbAt \X (1..3) :
                     p[2] <= Len(evs[p[1]].errors) /\ evs[p[1]].errors[p[2]] = kind})

Rescan(evs) ==
  LET n == Len(evs)
      fc == RescanCount(evs, {"feedback"})
      mc == RescanCount(evs, ManipulationTypes)
      states == RescanStates(evs)
      hints == RescanCount(evs, HintTypes)
      actions == RescanCount(evs, ActionTypes)
  IN  [ totalTime |-> IF n = 0 THEN 0 ELSE evs[n].time - RescanStart(evs),
        timeToFirstFeedback |-> RescanFirst(evs, {"feedback"}),
        avgTimeBetweenActions |->
          RescanMeanGap(evs, {evs[i].type : i \in 1..n}),
        manipulationCount |-> mc,
        feedbackCount |-> fc,
        manipulationToFeedbackRatio |-> Rat(mc, Max2(1, fc)),
        uniqueStates |-> Cardinality(states),
        stateChangeRate |-> IF states = {} THEN Rat(0, 1)
                            ELSE Rat(Cardinality(states), n),
        stateRevisits |-> Cardinality({o \in states : RescanVisits(evs, o) > 1}),
        maxVisitsToState |->
          IF states = {} THEN 0
          ELSE CHOOSE c \in 1..n :
                 /\ \E o \in states : RescanVisits(evs, o) = c
                 /\ \A o \in states : RescanVisits(evs, o) <= c,
        successRate |->
          IF fc = 0 THEN Rat(0, 1)
          ELSE Rat(Cardinality({i \in 1..n : evs[i].type = "feedback"
                                              /\ evs[i].success = "true"}), fc),
        consecutiveFailures |-> RescanStreak(evs),
        incorrectPositionErrors |-> RescanErrors(evs, "incorrectPosition"),
        incorrectIndentErrors |-> RescanErrors(evs, "incorrectIndent"),
        widgetHintCount |-> RescanCount(evs, {"X-Hint.Widget"}),
        socraticHintCount |-> RescanCount(evs, {"X-Hint.Socratic"}),
        totalHintCount |-> hints,
        hintsPerAction |-> IF actions > 0 THEN Rat(hints, actions) ELSE Rat(0, 1),
        timeToFirstHint |-> RescanFirst(evs, HintTypes),
        avgTimeBetweenHints |-> RescanMeanGap(evs, HintTypes) ]

\* C12: after any sequence of logEvent calls every field of the features
\* maintained incrementally equals the value recomputed from scratch over
\* the stored event sequence.
C12_FeaturesMatchRescan ==
  logger.features = Rescan(EventList(logger))

\* C20: timeToFirstFeedback (timeToFirstHint) is set when the first feedback
\* (hint) event is ingested, to that event's time minus the session start,
\* and a logEvent call on a history that holds a feedback (hint) event
\* leaves it as it is.
C20_FirstTimesSetOnce ==
  [][ /\ RescanCount(EventList(logger), {"feedback"}) > 0
         => logger'.features.timeToFirstFeedback = logger.features.timeToFirstFeedback
      /\ RescanCount(EventList(logger), HintTypes) > 0
         => logger'.features.timeToFirstHint = logger.features.timeToFirstHint
      /\ ( RescanCount(EventList(logger), {"feedback"}) = 0
           /\ RescanCount(EventList(logger'), {"feedback"}) = 1 )
         => logger'.features.timeToFirstFeedback =
              RescanFirst(EventList(logger'), {"feedback"})
      /\ ( RescanCount(EventList(logger), HintTypes) = 0
           /\ RescanCount(EventList(logger'), HintTypes) = 1 )
         => logger'.features.timeToFirstHint =
              RescanFirst(EventList(logger'), HintTypes) ]_vars

\* the type of the event ingested last
LastCall == trace.calls[Len(trace.calls)]

\* C23: after a feedback event is ingested consecutiveFailures is the length
\* of the longest run of failed checks in the subsequence of feedback
\* events: events of other types between two failures do not break a run, a
\* feedback event whose success is true or absent does.
C23_LongestFailureRun ==
  (trace.calls # <<>> /\ LastCall = "feedback") =>
    logger.features.consecutiveFailures = RescanStreak(EventList(logger))

\* two failed checks with an event of another type between them
C23_Witness ==
  /\ Len(trace.calls) = 3
  /\ trace.calls[1] = "feedback" /\ trace.calls[2] # "feedback" /\ LastCall = "feedback"
  /\ EventList(logger)[1].success = "false" /\ EventList(logger)[3].success = "false"
  /\ logger.features.consecutiveFailures = 2

\* the fields that depend on feedback events, and those that depend on hints
FeedbackFields(f) ==
  << f.feedbackCount, f.successRate, f.consecutiveFailures,
     f.incorrectPositionErrors, f.incorrectIndentErrors >>

HintFields(f) ==
  << f.widgetHintCount, f.socraticHintCount, f.totalHintCount, f.timeToFirstHint >>

\* C25: a logEvent call with an event that is not of type feedback leaves
\* the feedback-dependent fields unchanged, one with an event that is not a
\* hint leaves the hint counters and timeToFirstHint unchanged, and one with
\* an event whose type is missing or not of the vocabulary appends the
\* event, sets totalTime and endTime from it and changes none of these
\* fields nor manipulationCount.
C25_TypeSpecificFrame ==
  [][ LET ty == trace'.calls[Len(trace'.calls)]
          last == EventList(logger')[Len(logger'.events)]
      IN  /\ ty # "feedback" =>
               FeedbackFields(logger'.features) = FeedbackFields(logger.features)
          /\ ty \notin HintTypes =>
               HintFields(logger'.features) = HintFields(logger.features)
          /\ ty \notin (EventTypes \ {"unknown"}) =>
               /\ Len(logger'.events) = Len(logger.events) + 1
               /\ last.type = ty
               /\ getSessionSnapshot(logger').endTime = last.time
               /\ logger'.features.totalTime =
                    last.time - getSessionSnapshot(logger').startTime
               /\ logger'.features.manipulationCount =
                    logger.features.manipulationCount ]_vars

\* an event with a type outside the vocabulary, ingested after a failed
\* check and a hint
C25_Witness ==
  /\ trace.calls = <<"feedback", "X-Hint.Widget", "widgetHint">>
  /\ EventList(logger)[1].success = "false"
  /\ logger.features.feedbackCount = 1
  /\ logger.features.consecutiveFailures = 1
  /\ logger.features.widgetHintCount = 1
  /\ logger.features.timeToFirstHint = Tick
  /\ logger.features.totalTime = 2 * Tick
  /\ logger.features.manipulationCount = 0

----------------------------------------------------------------------------
(* SpecStates: logEvent calls with events that carry one of several output *)
(* hashes, or none.                                                        *)

VisitedHashes == {"", "s1", "s2", "s3"}

\* logEvent(e) of a move, a check or an event without a type
LogVisit ==
  \E ty \in {"moveOutput", "feedback", NoType}, out \in VisitedHashes :
    Ingest(Event(0, ty, out, IF ty = "feedback" THEN "false" ELSE "none", <<>>))

NextStates == LogVisit

SpecStates == InitLogger /\ [][NextStates]_vars

\* C24: after any sequence of logEvent calls stateChangeRate is the number
\* of distinct visited states divided by the number of events ingested.
C24_StateChangeRate ==
  Len(logger.events) >= 1 =>
    logger.features.stateChangeRate =
      Rat(Cardinality(RescanStates(EventList(logger))), Len(logger.events))

RECURSIVE SumSeq(_)
SumSeq(s) == IF s = <<>> THEN 0 ELSE Head(s) + SumSeq(Tail(s))

\* C28: the visit counts of the histogram sum to the number of ingested
\* events with a non-empty output, uniqueStates is the number of keys,
\* maxVisitsToState the largest count, stateRevisits the number of states
\* visited more than once, and stateRevisits <= uniqueStates <= number of
\* events.
C28_HistogramConsistent ==
  LET sh == getSessionSnapshot(logger).stateHistory
      f == getSessionSnapshot(logger).features
      evs == EventList(logger)
      keys == {sh[i].key : i \in 1..Len(sh)}
  IN  /\ Cardinality(keys) = Len(sh)
      /\ SumSeq(CountsOf(sh)) = Cardinality({i \in 1..Len(evs) : evs[i].output # ""})
      /\ f.uniqueStates = Cardinality(keys)
      /\ \A i \in 1..Len(sh) : sh[i].count <= f.maxVisitsToState
      /\ IF Len(sh) = 0 THEN f.maxVisitsToState = 0
         ELSE \E i \in 1..Len(sh) : sh[i].count = f.maxVisitsToState
      /\ f.stateRevisits = Cardinality({i \in 1..Len(sh) : sh[i].count > 1})
      /\ f.stateRevisits <= f.uniqueStates
      /\ f.uniqueStates <= Len(evs)

\* two states, one of them visited twice
C28_Witness ==
  /\ Len(logger.events) = 3
  /\ logger.features.uniqueStates = 2
  /\ logger.features.stateRevisits = 1
  /\ logger.features.maxVisitsToState = 2

----------------------------------------------------------------------------
(* SpecTimes: logEvent calls with events that bring a timestamp of their   *)
(* own, earlier or later than the clock and than the construction of the   *)
(* EventLogger, or none (such an event is stamped with the clock).         *)

TimeStamps == {StartClock - Tick, StartClock, StartClock + Tick, StartClock + 2 * Tick}

TimedTypes == {"init", "moveOutput", "feedback", "X-Hint.Widget", NoType}

\* logEvent(e) on a new event object with or without a timestamp
LogTimed ==
  \E ty \in TimedTypes, t \in {0} \cup TimeStamps :
    Ingest(Event(t, ty, "s1", IF ty = "feedback" THEN "false" ELSE "none", <<>>))

NextTimes == LogTimed

SpecTimes == InitLogger /\ [][NextTimes]_vars

\* C21: timeToFirstFeedback and timeToFirstHint are never negative: a
\* duration derived from an event whose timestamp precedes the start time
\* is clamped to zero.
C21_FirstTimesNonNegative ==
  /\ logger.features.timeToFirstFeedback >= 0
  /\ logger.features.timeToFirstHint >= 0

\* C22: in a snapshot taken after at least one ingest, startTime is the
\* least timestamp among the init events of the history or, when the
\* history holds no init event, the least timestamp of all events, whatever
\* the construction time of the EventLogger.
C22_StartTime ==
  Len(logger.events) >= 1 =>
    getSessionSnapshot(logger).startTime = RescanStart(EventList(logger))

\* an init event that is not the earliest event and was not made at
\* construction time
C22_Witness ==
  /\ Len(logger.events) = 3
  /\ \E i \in 1..3 : EventList(logger)[i].type = "init"
  /\ \E i \in 1..3 : EventList(logger)[i].time < getSessionSnapshot(logger).startTime
  /\ getSessionSnapshot(logger).startTime # logger.sessionStartTime

\* C29: in a snapshot taken after at least one ingest, endTime is the
\* timestamp of the event ingested last and features.totalTime is endTime
\* minus startTime, in whatever order the timestamps come.
C29_EndTimeAndTotal ==
  Len(logger.events) >= 1 =>
    LET s == getSessionSnapshot(logger)
    IN  /\ s.endTime = EventList(logger)[Len(logger.events)].time
        /\ s.features.totalTime = s.endTime - s.startTime

\* the event ingested last is older than the start time and than another event
C29_Witness ==
  /\ Len(logger.events) = 3
  /\ getSessionSnapshot(logger).endTime < getSessionSnapshot(logger).startTime
  /\ getSessionSnapshot(logger).features.totalTime < 0
  /\ \E i \in 1..2 : EventList(logger)[i].time > getSessionSnapshot(logger).endTime

----------------------------------------------------------------------------
(* SpecSnapshot: a caller keeps a snapshot and goes on calling logEvent,   *)
(* with new event objects or with an object it has passed before.          *)

\* logEvent(e) on a new event object, with or without a timestamp of its own
SnapLog ==
  /\ Len(logger.events) < MaxEvents
  /\ \E ty \in {"init", "moveOutput", "feedback"}, t \in {0, StartClock},
        out \in Outputs :
       /\ logger' = logNew(logger,
                      Event(t, ty, out,
                            IF ty = "feedback" THEN "false" ELSE "none", <<>>), now)
       /\ trace' = [op |-> "logEvent", calls |-> Append(trace.calls, ty)]
  /\ now' = NextClock
  /\ UNCHANGED <<snap, pc, widget, saver, grader>>

\* logEvent(e) on an event object that is in the history already
SnapRelog ==
  /\ Len(logger.events) < MaxEvents
  /\ \E ref \in 1..Len(logger.heap) :
       /\ logger' = logEvent(logger, ref, now)
       /\ trace' = [op |-> "relog", calls |-> Append(trace.calls, logger.heap[ref].type)]
  /\ now' = NextClock
  /\ UNCHANGED <<snap, pc, widget, saver, grader>>

\* const s = logger.getSessionSnapshot(), kept by the caller
TakeSnapshot ==
  /\ snap' = [ taken |-> TRUE, s |-> getSessionSnapshot(logger),
               view |-> SnapshotView(getSessionSnapshot(logger), logger.heap) ]
  /\ snap' # snap
  /\ UNCHANGED <<now, logger, pc, widget, trace, saver, grader>>

NextSnapshot == SnapLog \/ SnapRelog \/ TakeSnapshot

SpecSnapshot == InitLogger /\ [][NextSnapshot]_vars

\* C4: a snapshot returned by getSessionSnapshot is unaffected by later
\* logEvent calls: its events, features, stateHistory, startTime and endTime
\* keep the values they had when it was returned.
C4_SnapshotIsolation ==
  snap.taken => SnapshotView(snap.s, logger.heap) = snap.view

\* a snapshot of a non-empty history, followed by a logEvent of an object the
\* snapshot holds and by changed features
C4_Witness ==
  /\ snap.taken
  /\ Len(snap.s.events) >= 1
  /\ Len(logger.events) > Len(snap.s.events)
  /\ trace.op = "relog"
  /\ logger.events[Len(logger.events)] \in {snap.s.events[i] : i \in 1..Len(snap.s.events)}
  /\ logger.features # snap.s.features
  /\ logger.lastEventTime # snap.s.endTime

----------------------------------------------------------------------------
(* SpecScenario: the end-to-end sequence init, three moveOutput events     *)
(* with pairwise distinct hashes, a failed check, a Socratic hint and a    *)
(* successful check, with every timestamp and every other hash left open.  *)

Script ==
  << "init", "moveOutput", "moveOutput", "moveOutput",
     "feedback", "X-Hint.Socratic", "feedback" >>

ScriptSuccess == << "none", "none", "none", "none", "false", "none", "true" >>

MoveHashes == {"s1", "s2", "s3"}

OtherOutputs == {"", "s0", "s3"}

OutputsSeen(L) == {EventList(L)[i].output : i \in 1..Len(L.events)} \ {""}

PlayNext ==
  /\ pc < Len(Script)
  /\ \E d \in {0, Tick}, out \in MoveHashes \cup OtherOutputs :
       /\ IF Script[pc + 1] = "moveOutput"
            THEN out \in MoveHashes \ OutputsSeen([logger EXCEPT !.events = Tail(@)])
            ELSE out \in OtherOutputs
       /\ now' = Min2(now + d, MaxClock)
       /\ logger' = logNew(logger,
                      Event(0, Script[pc + 1], out, ScriptSuccess[pc + 1], <<>>), now')
  /\ pc' = pc + 1
  /\ trace' = [op |-> "logEvent", calls |-> Append(trace.calls, Script[pc + 1])]
  /\ UNCHANGED <<snap, widget, saver, grader>>

NextScenario == PlayNext

SpecScenario == InitLogger /\ [][NextScenario]_vars

ScenarioDone == pc = Len(Script)

ScenarioCommon ==
  /\ logger.features.feedbackCount = 2
  /\ logger.features.successRate = Rat(1, 2)
  /\ logger.features.consecutiveFailures = 1
  /\ logger.features.socraticHintCount = 1
  /\ logger.features.timeToFirstHint =
       EventList(logger)[6].time - EventList(logger)[1].time

\* the init, feedback and hint events carry no hash of their own
OthersAddNoState ==
  \A i \in {1, 5, 6, 7} :
     EventList(logger)[i].output \in
       {""} \cup {EventList(logger)[j].output : j \in 2..4}

\* C9 (as stated): after the scenario feedbackCount = 2, successRate = 0.5,
\* consecutiveFailures = 1, socraticHintCount = 1, uniqueStates = 3 and
\* timeToFirstHint = hint event time minus init event time.
C9_ScenarioAsStated ==
  ScenarioDone => (ScenarioCommon /\ logger.features.uniqueStates = 3)

\* C9 (amended): as stated, except that uniqueStates is the number of
\* distinct output hashes carried by all seven events; it is 3 when the
\* init, feedback and hint events carry no hash or repeat a moveOutput hash.
C9_ScenarioAmended ==
  ScenarioDone =>
    /\ ScenarioCommon
    /\ logger.features.uniqueStates = Cardinality(OutputsSeen(logger))
    /\ OthersAddNoState => logger.features.uniqueStates = 3

\* the scenario played to its end with a repeated hash on a later event and
\* with time passing between the init event and the hint
C9_Witness ==
  /\ ScenarioDone
  /\ OthersAddNoState
  /\ EventList(logger)[7].output = EventList(logger)[4].output
  /\ logger.features.timeToFirstHint > 0

----------------------------------------------------------------------------
(* SpecAdapter: one ParsonsWidgetAdapter on a widget whose native methods  *)
(* are called by the page and by the widget itself.  The original          *)
(* getFeedback may report the check through addLogEntry before it returns. *)

StateHashes == {"s1", "s2"}

FeedbackResults ==
  { [success |-> "true", errors |-> <<>>],
    [success |-> "false", errors |-> <<"incorrectPosition">>] }

\* no entry received yet, no result returned yet
NoEntry == [type |-> "-"]

NoResult == [success |-> "none", errors |-> <<>>]

NewWidget(hasAdd, hasGet) ==
  [ hash |-> "s1", hasAddLogEntry |-> hasAdd, hasGetFeedback |-> hasGet,
    lastErrorData |-> <<>>, userActions |-> 0, received |-> NoEntry ]

\* a call through a wrapper: the entry passed to the wrapped addLogEntry,
\* the result of the original getFeedback and the result the wrapper returned
AdapterCall(op, native, within, entry, original, returned) ==
  [op |-> op, calls |-> <<>>, native |-> native, within |-> within,
   entry |-> entry, original |-> original, returned |-> returned]

AdapterTrace(op, native, within) ==
  AdapterCall(op, native, within, NoEntry, NoResult, NoResult)

InitAdapter ==
  /\ now = StartClock
  /\ \E hasAdd \in BOOLEAN, hasGet \in BOOLEAN : widget = NewWidget(hasAdd, hasGet)
  /\ logger = NewAdapter(widget, StartClock)
  /\ snap = NoSnap
  /\ pc = 0
  /\ trace = AdapterTrace("new", FALSE, FALSE)
  /\ saver = NoSaver
  /\ grader = NoGrader

FeedbackEventCount(L) == Len(SelectSeq(EventList(L), IsFeedback))

\* the model stops recording at MaxHistory events
CanRecord == Len(logger.events) < MaxHistory

\* time passes
AdapterTick ==
  /\ now < MaxClock
  /\ now' = now + Tick
  /\ trace' = AdapterTrace("tick", FALSE, FALSE)
  /\ UNCHANGED <<logger, snap, pc, widget, saver, grader>>

\* the entries the widget appends to its log
NativeEntries ==
  { Entry("init", <<>>, 0, "", "none", <<>>),
    Entry("action", <<>>, 0, "", "none", <<>>),
    Entry("", <<>>, 0, "", "none", <<>>),
    Entry("", <<"C", "h", "e", "c", "k">>, 0, "", "false", <<>>),
    Entry("feedback", <<>>, 0, "", "false", <<"incorrectPosition">>),
    Entry("feedback", <<>>, now - Tick, "", "false", <<"incorrectPosition">>) }

\* widget.addLogEntry(entry), called by the widget outside a check
NativeLogEntry ==
  /\ widget.hasAddLogEntry
  /\ CanRecord
  /\ \E entry \in NativeEntries :
       LET r == wrappedAddLogEntry(logger, widget, entry, now)
       IN  /\ logger' = r.logger
           /\ widget' = r.widget
           /\ trace' = AdapterCall("addLogEntry", TRUE, FALSE, entry, NoResult, NoResult)
  /\ UNCHANGED <<now, snap, pc, saver, grader>>

\* the student moves a block: the arrangement changes and the widget logs it
NativeMove ==
  /\ widget.hasAddLogEntry
  /\ CanRecord
  /\ \E h \in StateHashes \ {widget.hash} :
       LET entry == Entry("moveOutput", <<>>, 0, h, "none", <<>>)
           r == wrappedAddLogEntry(logger, [widget EXCEPT !.hash = h], entry, now)
       IN  /\ logger' = r.logger
           /\ widget' = r.widget
           /\ trace' = AdapterCall("addLogEntry", TRUE, FALSE, entry, NoResult, NoResult)
  /\ UNCHANGED <<now, snap, pc, saver, grader>>

\* widget.getFeedback() through the wrapper, on a widget whose original
\* method reports the check through this.addLogEntry before it returns; the
\* entry carries no Date or one that is et old
GetFeedbackReported ==
  /\ widget.hasGetFeedback /\ widget.hasAddLogEntry
  /\ CanRecord
  /\ \E fb \in FeedbackResults, age \in {-1, Tick, Window} :
       LET et == IF age = -1 THEN 0 ELSE now - age
           entry == Entry("feedback", <<>>, et, "", fb.success, fb.errors)
           r == wrappedAddLogEntry(logger, widget, entry, now)
           g == wrappedGetFeedback(r.logger, r.widget, fb, now)
       IN  /\ logger' = g.logger
           /\ widget' = r.widget
           /\ trace' = AdapterCall("getFeedback", TRUE,
                          Abs((IF et = 0 THEN now ELSE et) - now) < Window,
                          entry, fb, g.result)
  /\ UNCHANGED <<now, snap, pc, saver, grader>>

\* widget.getFeedback() through the wrapper, on a widget whose original
\* method only computes the result
GetFeedbackSilent ==
  /\ widget.hasGetFeedback
  /\ CanRecord
  /\ \E fb \in FeedbackResults :
       LET g == wrappedGetFeedback(logger, widget, fb, now)
       IN  /\ logger' = g.logger
           /\ trace' = AdapterCall("getFeedback", FALSE, FALSE, NoEntry, fb, g.result)
  /\ UNCHANGED <<now, snap, pc, widget, saver, grader>>

\* the types the page passes: the hint and solve types, and the widgetHint
\* of ParsonsWidget.tsx:399
ManualTypes == {"X-Hint.Socratic", "problem_solved", "init", "widgetHint"}

\* adapter.logManualEvent(eventType, metadata)
LogManualEvent ==
  /\ CanRecord
  /\ \E ty \in ManualTypes : logger' = logManualEvent(logger, widget, ty, now)
  /\ trace' = AdapterTrace("logManualEvent", FALSE, FALSE)
  /\ UNCHANGED <<now, snap, pc, widget, saver, grader>>

NextAdapter ==
  \/ AdapterTick
  \/ NativeLogEntry
  \/ NativeMove
  \/ GetFeedbackReported
  \/ GetFeedbackSilent
  \/ LogManualEvent

SpecAdapter == InitAdapter /\ [][NextAdapter]_vars

C15_TypesInVocabulary ==
  \A i \in 1..Len(logger.events) : EventList(logger)[i].type \in EventTypes

\* C10: after any sequence of adapter operations the session history
\* contains exactly one event of type init.
C10_ExactlyOneInit ==
  Len(SelectSeq(SnapshotView(getSessionSnapshot(logger), logger.heap).events, IsInit)) = 1

----------------------------------------------------------------------------
(* SpecDedup: the duplicate test of the wrapped getFeedback in longer      *)
(* histories.  Feedback entries reach the wrapped addLogEntry, moves and   *)
(* hints are recorded, time passes or not, and getFeedback is called on a  *)
(* widget whose original method only computes the result.  The trace       *)
(* keeps which events of the history were captured as feedback through     *)
(* addLogEntry, and how many times getFeedback was called.                 *)

DedupTrace(op, captured, checks) ==
  [op |-> op, calls |-> <<>>, captured |-> captured, checks |-> checks]

InitDedup ==
  /\ now = StartClock
  /\ widget = NewWidget(TRUE, TRUE)
  /\ logger = NewAdapter(widget, StartClock)
  /\ snap = NoSnap
  /\ pc = 0
  /\ trace = DedupTrace("new", {}, 0)
  /\ saver = NoSaver
  /\ grader = NoGrader

DedupTick ==
  /\ now < MaxClock
  /\ now' = now + Tick
  /\ trace' = DedupTrace("tick", trace.captured, trace.checks)
  /\ UNCHANGED <<logger, snap, pc, widget, saver, grader>>

\* widget.addLogEntry({type: 'feedback', ...}): a check reported through the
\* log
DedupNativeFeedback ==
  /\ Len(logger.events) < MaxDedup
  /\ LET entry == Entry("feedback", <<>>, 0, "", "false", <<"incorrectPosition">>)
     IN  \E r \in {wrappedAddLogEntry(logger, widget, entry, now)} :
           /\ logger' = r.logger
           /\ widget' = r.widget
           /\ trace' = DedupTrace("addLogEntry",
                                   trace.captured \cup {Len(r.logger.events)},
                                   trace.checks)
  /\ UNCHANGED <<now, snap, pc, saver, grader>>

\* a move logged by the widget
DedupMove ==
  /\ Len(logger.events) < MaxDedup
  /\ \E h \in StateHashes \ {widget.hash} :
       LET entry == Entry("moveOutput", <<>>, 0, h, "none", <<>>)
       IN  \E r \in {wrappedAddLogEntry(logger, [widget EXCEPT !.hash = h], entry, now)} :
             /\ logger' = r.logger
             /\ widget' = r.widget
  /\ trace' = DedupTrace("move", trace.captured, trace.checks)
  /\ UNCHANGED <<now, snap, pc, saver, grader>>

\* a hint logged by the page
DedupHint ==
  /\ Len(logger.events) < MaxDedup
  /\ logger' = logManualEvent(logger, widget, "X-Hint.Widget", now)
  /\ trace' = DedupTrace("hint", trace.captured, trace.checks)
  /\ UNCHANGED <<now, snap, pc, widget, saver, grader>>

\* widget.getFeedback() through the wrapper
DedupGetFeedback ==
  /\ Len(logger.events) < MaxDedup
  /\ trace.checks < MaxChecks
  /\ \E g \in {wrappedGetFeedback(logger, widget,
                   [success |-> "false", errors |-> <<"incorrectPosition">>], now)} :
       logger' = g.logger
  /\ trace' = DedupTrace("getFeedback", trace.captured, trace.checks + 1)
  /\ UNCHANGED <<now, snap, pc, widget, saver, grader>>

NextDedup ==
  \/ DedupTick
  \/ DedupNativeFeedback
  \/ DedupMove
  \/ DedupHint
  \/ DedupGetFeedback

SpecDedup == InitDedup /\ [][NextDedup]_vars

\* the history holds a feedback event captured through addLogEntry less
\* than 1 second ago
CapturedWithinWindow ==
  \E i \in trace.captured :
     /\ EventList(logger)[i].time <= now
     /\ now - EventList(logger)[i].time < Window

\* C18: the wrapped getFeedback records no feedback event of its own
\* whenever a feedback event captured through addLogEntry less than 1 second
\* earlier is in the history, however many other events were ingested in
\* between.
C18_SuppressedWhateverIntervenes ==
  [][ (trace'.op = "getFeedback" /\ CapturedWithinWindow)
        => logger'.events = logger.events ]_vars

\* C19: on a widget that does not report checks through addLogEntry every
\* call of the wrapped getFeedback adds one feedback event, also when it
\* follows another call by less than 1 second.
C19_EveryCheckRecorded ==
  [][ (trace'.op = "getFeedback" /\ trace.captured = {})
        => FeedbackEventCount(logger') = FeedbackEventCount(logger) + 1 ]_vars

----------------------------------------------------------------------------
(* SpecClassify: native log entries that name what happened in an action   *)
(* string, with or without a literal type beside it.                       *)

ActionStrings ==
  { <<"m", "o", "v", "e">>, <<"M", "o", "v", "e", "d">>,
    <<"A", "d", "d">>, <<"r", "e", "m", "o", "v", "e">>,
    <<"R", "e", "m", "o", "v", "e", "d">>, <<"D", "e", "l", "e", "t", "e">>,
    <<"f", "e", "e", "d", "b", "a", "c", "k">>, <<"C", "h", "e", "c", "k">>,
    <<"d", "r", "a", "g">>, <<"a", "d">> }

LiteralTypes == {"", "toggle", "feedback"}

\* widget.addLogEntry({type?, action, ...}) through the wrapper
NativeAction ==
  /\ CanRecord
  /\ \E ty \in LiteralTypes, action \in ActionStrings :
       LET entry == Entry(ty, action, 0, "", "false", <<>>)
       IN  \E r \in {wrappedAddLogEntry(logger, widget, entry, now)} :
             /\ logger' = r.logger
             /\ widget' = r.widget
             /\ trace' = AdapterCall("addLogEntry", TRUE, FALSE, entry, NoResult, NoResult)
  /\ UNCHANGED <<now, snap, pc, saver, grader>>

NextClassify == NativeAction

SpecClassify == InitDedup /\ [][NextClassify]_vars

\* the action contains the keyword, in any case of letters
HasKeyword(action, word) == Includes(toLowerCase(action), word)

\* the stated classification; `remove` contains `move`, and it is the
\* longer keyword that names the action
StatedType(entry) ==
  IF entry.type # "" THEN entry.type
  ELSE IF HasKeyword(entry.action, WordRemove) \/ HasKeyword(entry.action, WordDelete)
    THEN "removeOutput"
  ELSE IF HasKeyword(entry.action, WordMove) THEN "moveOutput"
  ELSE IF HasKeyword(entry.action, WordAdd) THEN "addOutput"
  ELSE IF HasKeyword(entry.action, WordFeedback) \/ HasKeyword(entry.action, WordCheck)
    THEN "feedback"
  ELSE "unknown"

\* C26: a native entry without a literal type is classified by its action
\* string, by case-insensitive substring: move is moveOutput, add is
\* addOutput, remove or delete is removeOutput, feedback or check is
\* feedback, anything else unknown; a literal type is used as it is and the
\* action is ignored.
C26_ActionClassified ==
  trace.op = "addLogEntry" =>
    EventList(logger)[Len(logger.events)].type = StatedType(trace.entry)

----------------------------------------------------------------------------
(* SpecConstruct: new ParsonsWidgetAdapter(widget, ...) on widget objects   *)
(* that have or lack addLogEntry, getFeedback, solutionHash, options and    *)
(* trashHash, with or without a trash configured, and the calls made on    *)
(* the adapter afterwards.                                                 *)

\* a widget object with the members named; trashId stands for a truthy
\* options.trashId
WidgetObject(hasAdd, hasGet, hasHash, hasOptions, trashId, hasTrash) ==
  [ hash |-> "s1", hasAddLogEntry |-> hasAdd, hasGetFeedback |-> hasGet,
    lastErrorData |-> <<>>, userActions |-> 0, received |-> NoEntry,
    hasSolutionHash |-> hasHash, hasOptions |-> hasOptions,
    trashId |-> hasOptions /\ trashId, hasTrashHash |-> hasTrash ]

\* no adapter yet
NoAdapter == [state |-> "none", wrapsAdd |-> FALSE, wrapsGet |-> FALSE, warnings |-> {}]

\* the init event of logInitialState can be built: solutionHash(), then
\* options.trashId, then trashHash() when a trash is configured
\* (ParsonsWidgetAdapter.ts:187-199); a missing member is a TypeError
CanBuildInit(W) ==
  W.hasSolutionHash /\ W.hasOptions /\ (W.trashId => W.hasTrashHash)

\* a constructor that insists on both methods to wrap
constructAdapterStrict(W) ==
  IF CanBuildInit(W) /\ W.hasAddLogEntry /\ W.hasGetFeedback
    THEN [ state |-> "ok", wrapsAdd |-> TRUE, wrapsGet |-> TRUE, warnings |-> {} ]
    ELSE [ state |-> "threw", wrapsAdd |-> FALSE, wrapsGet |-> FALSE, warnings |-> {} ]

\* the constructor and attachListeners (ParsonsWidgetAdapter.ts:15-48,
\* 124-128): which methods are wrapped, which warnings are printed, and
\* whether the constructor returns or throws
constructAdapter(W) ==
  LET warnings == (IF W.hasAddLogEntry THEN {} ELSE {"addLogEntry"})
                    \cup (IF W.hasGetFeedback THEN {} ELSE {"getFeedback"})
  IN  [ state |-> IF CanBuildInit(W) THEN "ok" ELSE "threw",
        wrapsAdd |-> W.hasAddLogEntry /\ CanBuildInit(W),
        wrapsGet |-> W.hasGetFeedback /\ CanBuildInit(W),
        warnings |-> warnings ]

InitConstruct ==
  /\ now = StartClock
  /\ \E hasAdd \in BOOLEAN, hasGet \in BOOLEAN, hasHash \in BOOLEAN,
        hasOptions \in BOOLEAN, trashId \in BOOLEAN, hasTrash \in BOOLEAN :
       widget = WidgetObject(hasAdd, hasGet, hasHash, hasOptions, trashId, hasTrash)
  /\ logger = NewLogger(StartClock)
  /\ snap = NoSnap
  /\ pc = NoAdapter
  /\ trace = AdapterTrace("none", FALSE, FALSE)
  /\ saver = NoSaver
  /\ grader = NoGrader

\* new ParsonsWidgetAdapter(widget, sessionId, studentId, problemId, schoolId)
Construct ==
  /\ pc.state = "none"
  /\ pc' = constructAdapter(widget)
  /\ logger' = IF pc'.state = "ok" THEN NewAdapter(widget, now) ELSE logger
  /\ trace' = AdapterTrace("new", FALSE, FALSE)
  /\ UNCHANGED <<now, snap, widget, saver, grader>>

ConstructTick ==
  /\ now < MaxClock
  /\ now' = now + Tick
  /\ trace' = AdapterTrace("tick", FALSE, FALSE)
  /\ UNCHANGED <<logger, snap, pc, widget, saver, grader>>

\* adapter.logManualEvent(eventType, metadata) on the adapter constructed
ConstructedManual ==
  /\ pc.state = "ok"
  /\ CanRecord
  /\ \E ty \in ManualTypes : logger' = logManualEvent(logger, widget, ty, now)
  /\ trace' = AdapterTrace("logManualEvent", FALSE, FALSE)
  /\ UNCHANGED <<now, snap, pc, widget, saver, grader>>

\* widget.addLogEntry(entry) when the constructor has wrapped it
ConstructedNative ==
  /\ pc.state = "ok" /\ pc.wrapsAdd
  /\ CanRecord
  /\ \E entry \in NativeEntries :
       \E r \in {wrappedAddLogEntry(logger, widget, entry, now)} :
         /\ logger' = r.logger
         /\ widget' = r.widget
         /\ trace' = AdapterCall("addLogEntry", TRUE, FALSE, entry, NoResult, NoResult)
  /\ UNCHANGED <<now, snap, pc, saver, grader>>

\* widget.getFeedback() when the constructor has wrapped it
ConstructedCheck ==
  /\ pc.state = "ok" /\ pc.wrapsGet
  /\ CanRecord
  /\ \E fb \in FeedbackResults :
       \E g \in {wrappedGetFeedback(logger, widget, fb, now)} :
         /\ logger' = g.logger
         /\ trace' = AdapterCall("getFeedback", FALSE, FALSE, NoEntry, fb, g.result)
  /\ UNCHANGED <<now, snap, pc, widget, saver, grader>>

NextConstruct ==
  \/ Construct
  \/ ConstructTick
  \/ ConstructedManual
  \/ ConstructedNative
  \/ ConstructedCheck

SpecConstruct == InitConstruct /\ [][NextConstruct]_vars

\* what the constructor leaves on a widget it accepts: the init event first
\* in the history, one warning per missing method, no wrapper for it
ConstructedWell ==
  /\ pc.state = "ok"
  /\ Len(logger.events) >= 1
  /\ EventList(logger)[1].type = "init"
  /\ EventList(logger)[1].output = widget.hash
  /\ pc.warnings = {m \in {"addLogEntry", "getFeedback"} :
                       \/ m = "addLogEntry" /\ ~widget.hasAddLogEntry
                       \/ m = "getFeedback" /\ ~widget.hasGetFeedback}
  /\ pc.wrapsAdd = widget.hasAddLogEntry
  /\ pc.wrapsGet = widget.hasGetFeedback

\* a logManualEvent call has appended its event, stamped with the clock and
\* with the state hash computed at the call
ManualEventRecorded ==
  trace.op = "logManualEvent" =>
    /\ Len(logger.events) >= 2
    /\ EventList(logger)[Len(logger.events)].type \in ManualTypes
    /\ EventList(logger)[Len(logger.events)].time = now
    /\ EventList(logger)[Len(logger.events)].output = widget.hash

----------------------------------------------------------------------------
(* SpecHash: the output hash on the events of a session in which the       *)
(* student adds, removes, reorders and indents blocks.  The widget's hash  *)
(* function is not part of the sources; it is taken in the form the spec   *)
(* and types.ts:19 give ("0_0-1_1-2_0": block and depth of every line of   *)
(* the solution area, in order).                                           *)

BlockIds == 0..(MaxBlocks - 1)

Digit(n) ==
  CASE n = 0 -> "0" [] n = 1 -> "1" [] n = 2 -> "2" [] n = 3 -> "3" [] n = 4 -> "4"
    [] n = 5 -> "5" [] n = 6 -> "6" [] n = 7 -> "7" [] n = 8 -> "8" [] OTHER -> "9"

\* the decimal numeral of n
RECURSIVE Numeral(_)
Numeral(n) == IF n < 10 THEN Digit(n) ELSE Numeral(n \div 10) \o Digit(n % 10)

\* the hash of an arrangement: <block>_<depth> of every line, joined by "-"
RECURSIVE solutionHash(_)
solutionHash(arr) ==
  IF arr = <<>> THEN ""
  ELSE LET line == Numeral(arr[1].id) \o "_" \o Numeral(arr[1].indent)
       IN  IF Len(arr) = 1 THEN line
           ELSE line \o "-" \o solutionHash(Tail(arr))

\* the widget with the arrangement arr in its solution area
ArrangedWidget(arr) ==
  [ hash |-> solutionHash(arr), arrangement |-> arr,
    hasAddLogEntry |-> TRUE, hasGetFeedback |-> TRUE,
    lastErrorData |-> <<>>, userActions |-> 0, received |-> NoEntry ]

\* the arrangements the events were recorded in, one per event
HashTrace(op, arrs) == [op |-> op, calls |-> arrs]

InitHash ==
  /\ now = StartClock
  /\ \E first \in BlockIds \cup {-1} :
       widget = ArrangedWidget(IF first = -1 THEN <<>>
                               ELSE <<[id |-> first, indent |-> 0]>>)
  /\ logger = NewAdapter(widget, StartClock)
  /\ snap = NoSnap
  /\ pc = 0
  /\ trace = HashTrace("new", <<widget.arrangement>>)
  /\ saver = NoSaver
  /\ grader = NoGrader

Placed(arr) == {arr[i].id : i \in 1..Len(arr)}

\* the arrangements one drag away from arr: a block added at some place, a
\* block removed, two neighbours swapped, one line's depth changed by one
Rearrangements(arr) ==
  LET n == Len(arr)
  IN  { SubSeq(arr, 1, k) \o <<[id |-> b, indent |-> 0]>> \o SubSeq(arr, k + 1, n) :
          b \in BlockIds \ Placed(arr), k \in 0..n }
      \cup { SubSeq(arr, 1, k - 1) \o SubSeq(arr, k + 1, n) : k \in 1..n }
      \cup { [i \in 1..n |-> IF i = k THEN arr[k + 1]
                              ELSE IF i = k + 1 THEN arr[k] ELSE arr[i]] :
               k \in 1..(n - 1) }
      \cup UNION { { [arr EXCEPT ![k].indent = d] :
                        d \in {x \in 0..MaxIndent : Abs(x - arr[k].indent) = 1} } :
                    k \in 1..n }

\* the student drags a block; the widget logs the move without a hash of
\* its own and the wrapper takes solutionHash()
HashMove ==
  /\ Len(logger.events) <= MaxEvents
  /\ \E arr \in Rearrangements(widget.arrangement) :
       LET entry == Entry("moveOutput", <<>>, 0, "", "none", <<>>)
           W == [widget EXCEPT !.arrangement = arr, !.hash = solutionHash(arr)]
       IN  \E r \in {wrappedAddLogEntry(logger, W, entry, now)} :
             /\ logger' = r.logger
             /\ widget' = r.widget
             /\ trace' = HashTrace("addLogEntry", Append(trace.calls, arr))
  /\ UNCHANGED <<now, snap, pc, saver, grader>>

\* adapter.logManualEvent(eventType, metadata) on the arrangement as it is
HashManual ==
  /\ Len(logger.events) <= MaxEvents
  /\ \E ty \in {"X-Hint.Widget", "problem_solved"} :
       logger' = logManualEvent(logger, widget, ty, now)
  /\ trace' = HashTrace("logManualEvent", Append(trace.calls, widget.arrangement))
  /\ UNCHANGED <<now, snap, pc, widget, saver, grader>>

NextHash == HashMove \/ HashManual

SpecHash == InitHash /\ [][NextHash]_vars

----------------------------------------------------------------------------
(* SpecSession: the page component around one widget and its adapter.     *)
(* The student moves blocks and presses the check button; a failed check   *)
(* asks the AI-feedback service for a hint, whose answer arrives later; a  *)
(* successful check marks the problem solved.                              *)

\* the arrangement the widget's grader accepts
SolvedHash == "s2"

\* useState(false) for isProblemSolved, no generateFeedback call pending
NewPage == [isProblemSolved |-> FALSE, pending |-> 0]

InitSession ==
  /\ now = StartClock
  /\ widget = NewWidget(TRUE, TRUE)
  /\ logger = NewAdapter(widget, StartClock)
  /\ snap = NoSnap
  /\ pc = NewPage
  /\ trace = AdapterTrace("new", FALSE, FALSE)
  /\ saver = NoSaver
  /\ grader = NoGrader

HasSolvedEvent(L) ==
  \E i \in 1..Len(L.events) : EventList(L)[i].type = "problem_solved"

SessionTick ==
  /\ now < MaxClock
  /\ now' = now + Tick
  /\ trace' = AdapterTrace("tick", FALSE, FALSE)
  /\ UNCHANGED <<logger, snap, pc, widget, saver, grader>>

\* the student drags a block: the widget logs the move through addLogEntry
SessionMove ==
  /\ Len(logger.events) < MaxSession
  /\ \E h \in StateHashes \ {widget.hash} :
       LET entry == Entry("moveOutput", <<>>, 0, h, "none", <<>>)
           r == wrappedAddLogEntry(logger, [widget EXCEPT !.hash = h], entry, now)
       IN  /\ logger' = r.logger
           /\ widget' = r.widget
           /\ trace' = AdapterCall("addLogEntry", TRUE, FALSE, entry, NoResult, NoResult)
  /\ UNCHANGED <<now, snap, pc, saver, grader>>

\* the result of the widget's grader on the arrangement W holds
gradeArrangement(W) ==
  IF W.hash = SolvedHash THEN [success |-> "true", errors |-> <<>>]
  ELSE [success |-> "false", errors |-> <<"incorrectPosition">>]

\* the student presses the check button: checkSolution().  The widget's
\* getFeedback runs through the wrapper (the original method logs the check
\* through addLogEntry); a failed check logs the widget hint and starts a
\* generateFeedback call, a successful one sets isProblemSolved and logs
\* problem_solved.  Nothing happens once isProblemSolved is set.
SessionCheck ==
  /\ Len(logger.events) + 2 <= MaxSession
  /\ IF pc.isProblemSolved
       THEN UNCHANGED <<logger, widget, pc>>
       ELSE
         LET fb == gradeArrangement(widget)
             entry == Entry("feedback", <<>>, 0, "", fb.success, fb.errors)
         IN  \E r \in {wrappedAddLogEntry(logger, widget, entry, now)} :
             \E g \in {wrappedGetFeedback(r.logger, r.widget, fb, now)} :
               /\ widget' = r.widget
               /\ IF g.result.success = "true"
                    THEN /\ logger' = logManualEvent(g.logger, r.widget,
                                                     "problem_solved", now)
                         /\ pc' = [pc EXCEPT !.isProblemSolved = TRUE]
                    ELSE /\ logger' = logManualEvent(g.logger, r.widget,
                                                     "X-Hint.Widget", now)
                         /\ pc' = [pc EXCEPT !.pending = @ + 1]
  /\ trace' = AdapterTrace("checkSolution", TRUE, TRUE)
  /\ UNCHANGED <<now, snap, saver, grader>>

\* the then-callback of generateFeedback: the Socratic hint is logged when
\* the service returned a text
hintResolved(L, W, hasText, t) ==
  IF hasText THEN logManualEvent(L, W, "X-Hint.Socratic", t) ELSE L

SessionHintArrives ==
  /\ pc.pending > 0
  /\ Len(logger.events) < MaxSession
  /\ \E hasText \in BOOLEAN :
       logger' = hintResolved(logger, widget, hasText, now)
  /\ pc' = [pc EXCEPT !.pending = @ - 1]
  /\ trace' = AdapterTrace("hint", FALSE, FALSE)
  /\ UNCHANGED <<now, snap, widget, saver, grader>>

NextSession == SessionTick \/ SessionMove \/ SessionCheck \/ SessionHintArrives

SpecSession == InitSession /\ [][NextSession]_vars

\* C14: once a problem_solved event is in the history no further event is
\* appended to it: neither a Socratic hint asked for by an earlier failed
\* check, nor a move or a check made after the solve.
C14_NothingAfterSolved ==
  [][ HasSolvedEvent(logger) => logger'.events = logger.events ]_vars

----------------------------------------------------------------------------
(* SpecSave: the saveSession callback of useSimpleStorage, called by the   *)
(* page (problem switch, page unload, periodic save, solved problem),      *)
(* with React rendering the isSaving state and running the effect that     *)
(* copies it into isSavingRef at times of its own.                         *)

\* useState(false), useRef(false); no update queued, no effect pending, no
\* request in flight
NewSaver ==
  [ isSaving |-> FALSE, isSavingRef |-> FALSE, queue |-> <<>>, effect |-> "none",
    inFlight |-> 0, calls |-> 0, sent |-> 0, dropped |-> 0, failed |-> 0,
    raised |-> FALSE ]

InitSave ==
  /\ now = StartClock
  /\ logger = NewLogger(StartClock)
  /\ snap = NoSnap
  /\ pc = 0
  /\ widget = NoWidget
  /\ trace = NoTrace
  /\ saver = NewSaver
  /\ grader = NoGrader

\* saveSession(snapshot) up to its await: the guard, the flag, the POST
saveSession(S) ==
  IF S.isSavingRef
    THEN [S EXCEPT !.calls = @ + 1, !.dropped = @ + 1]
    ELSE [S EXCEPT !.calls = @ + 1, !.isSavingRef = TRUE,
                   !.queue = Append(@, TRUE),
                   !.inFlight = @ + 1, !.sent = @ + 1]

\* a saveSession without the catch and the finally: a failure leaves the
\* guard set and reaches the caller
settleSaveUncaught(S, ok) ==
  IF ok
    THEN [S EXCEPT !.inFlight = @ - 1, !.isSavingRef = FALSE,
                   !.queue = Append(@, FALSE)]
    ELSE [S EXCEPT !.inFlight = @ - 1, !.failed = @ + 1, !.raised = TRUE]

\* saveSession after the await: the response or the error (a rejected fetch,
\* or the Error thrown for a response that is not ok), caught and logged,
\* then the finally; nothing is raised to the caller
settleSave(S, ok) ==
  [S EXCEPT !.inFlight = @ - 1, !.isSavingRef = FALSE,
            !.queue = Append(@, FALSE),
            !.failed = IF ok THEN @ ELSE @ + 1]

\* the effect of useSimpleStorage.ts:116-118 with the isSaving it closed over
runEffect(S) ==
  IF S.effect = "none" THEN S
  ELSE [S EXCEPT !.isSavingRef = (S.effect = "true"), !.effect = "none"]

\* React renders the hook: the effects of the last render run first, the
\* queued updates are applied, and the effect is scheduled when isSaving changed
render(S) ==
  LET S1 == runEffect(S)
      next == S1.queue[Len(S1.queue)]
  IN  [S1 EXCEPT !.queue = <<>>, !.isSaving = next,
                 !.effect = IF next # S1.isSaving
                              THEN (IF next THEN "true" ELSE "false") ELSE "none"]

SaveCall ==
  /\ saver.calls < MaxSaves
  /\ saver' = saveSession(saver)
  /\ UNCHANGED <<now, logger, snap, pc, widget, trace, grader>>

SaveSettles ==
  /\ saver.inFlight > 0
  /\ \E ok \in BOOLEAN : saver' = settleSave(saver, ok)
  /\ UNCHANGED <<now, logger, snap, pc, widget, trace, grader>>

Render ==
  /\ saver.queue # <<>>
  /\ saver' = render(saver)
  /\ UNCHANGED <<now, logger, snap, pc, widget, trace, grader>>

RunEffect ==
  /\ saver.effect # "none"
  /\ saver' = runEffect(saver)
  /\ UNCHANGED <<now, logger, snap, pc, widget, trace, grader>>

\* the student goes on working while saves are under way
SaveIngest ==
  /\ Len(logger.events) < MaxEvents
  /\ logger' = logNew(logger, Event(0, "moveOutput", "s1", "none", <<>>), now)
  /\ UNCHANGED <<now, snap, pc, widget, trace, saver, grader>>

NextSave == SaveCall \/ SaveSettles \/ Render \/ RunEffect \/ SaveIngest

SpecSave == InitSave /\ [][NextSave]_vars

\* C3: at most one session-save request is in flight at any time, under
\* every interleaving of save calls, request completions and the effect
\* that copies isSaving into isSavingRef.
C3_OneSaveInFlight == saver.inFlight <= 1

\* React has rendered every queued update and run every effect, and no
\* request is in flight
SaveQuiescent ==
  saver.queue = <<>> /\ saver.effect = "none" /\ saver.inFlight = 0

----------------------------------------------------------------------------
(* SpecSolve: the page component with its adapter and the saveSession of   *)
(* useSimpleStorage.  The page saves the session on its own (periodic      *)
(* save, problem switch) while the problem is unsolved and when the page   *)
(* is left; a successful check logs problem_solved and saves the final     *)
(* snapshot.  snap is the body of the last POST sent.                      *)

NewSolvePage == [isProblemSolved |-> FALSE, closed |-> FALSE]

InitSolve ==
  /\ now = StartClock
  /\ widget = NewWidget(TRUE, TRUE)
  /\ logger = NewAdapter(widget, StartClock)
  /\ snap = NoSnap
  /\ pc = NewSolvePage
  /\ trace = AdapterTrace("new", FALSE, FALSE)
  /\ saver = NewSaver
  /\ grader = NoGrader

\* saveSession(adapter.getSessionSnapshot()): the hook's state and the body
\* of the request, when one is sent
saveSnapshot(S, L, body) ==
  [ saver |-> saveSession(S),
    body |-> IF S.isSavingRef THEN body
             ELSE [taken |-> TRUE, s |-> getSessionSnapshot(L)] ]

\* the periodic save (ParsonsWidget.tsx:341-344) or the save before a
\* problem switch (part_001:300-302)
PageSave ==
  /\ ~pc.closed /\ ~pc.isProblemSolved
  /\ saver.calls < MaxSaves
  /\ \E r \in {saveSnapshot(saver, logger, snap)} :
       saver' = r.saver /\ snap' = r.body
  /\ trace' = AdapterTrace("save", FALSE, FALSE)
  /\ UNCHANGED <<now, logger, pc, widget, grader>>

\* the beforeunload listener (part_001:340-345), registered while the
\* problem was unsolved and never removed
PageUnload ==
  /\ ~pc.closed
  /\ \E r \in {saveSnapshot(saver, logger, snap)} :
       saver' = r.saver /\ snap' = r.body
  /\ pc' = [pc EXCEPT !.closed = TRUE]
  /\ trace' = AdapterTrace("unload", FALSE, FALSE)
  /\ UNCHANGED <<now, logger, widget, grader>>

\* the student drags a block
SolveMove ==
  /\ ~pc.closed
  /\ Len(logger.events) < MaxHistory
  /\ \E h \in StateHashes \ {widget.hash} :
       LET entry == Entry("moveOutput", <<>>, 0, h, "none", <<>>)
       IN  \E r \in {wrappedAddLogEntry(logger, [widget EXCEPT !.hash = h], entry, now)} :
             /\ logger' = r.logger
             /\ widget' = r.widget
  /\ trace' = AdapterTrace("move", FALSE, FALSE)
  /\ UNCHANGED <<now, snap, pc, saver, grader>>

\* checkSolution() (part_001:379-529): nothing once isProblemSolved is set;
\* a failed check logs the widget hint; a successful one sets
\* isProblemSolved, logs problem_solved and calls saveSession with the
\* final snapshot
SolveCheck ==
  /\ ~pc.closed
  /\ Len(logger.events) + 2 <= MaxSession
  /\ IF pc.isProblemSolved
       THEN UNCHANGED <<logger, widget, pc, saver, snap>>
       ELSE
         LET fb == gradeArrangement(widget)
             entry == Entry("feedback", <<>>, 0, "", fb.success, fb.errors)
         IN  \E r \in {wrappedAddLogEntry(logger, widget, entry, now)} :
             \E g \in {wrappedGetFeedback(r.logger, r.widget, fb, now)} :
               /\ widget' = r.widget
               /\ IF g.result.success = "true"
                    THEN \E L \in {logManualEvent(g.logger, r.widget,
                                                  "problem_solved", now)} :
                         \E sv \in {saveSnapshot(saver, L, snap)} :
                           /\ logger' = L
                           /\ pc' = [pc EXCEPT !.isProblemSolved = TRUE]
                           /\ saver' = sv.saver
                           /\ snap' = sv.body
                    ELSE /\ logger' = logManualEvent(g.logger, r.widget,
                                                     "X-Hint.Widget", now)
                         /\ UNCHANGED <<pc, saver, snap>>
  /\ trace' = AdapterTrace("checkSolution", TRUE, TRUE)
  /\ UNCHANGED <<now, grader>>

NextSolve ==
  \/ PageSave
  \/ PageUnload
  \/ SolveMove
  \/ SolveCheck
  \/ SaveSettles
  \/ Render
  \/ RunEffect

SpecSolve == InitSolve /\ [][NextSolve]_vars

\* the last request sent carries a snapshot with the problem_solved event
SolvedSnapshotSent ==
  /\ snap.taken
  /\ \E i \in 1..Len(snap.s.events) :
       SnapshotView(snap.s, logger.heap).events[i].type = "problem_solved"

\* C27: whenever checkSolution observes a successful check, a save request
\* carrying a snapshot that contains the problem_solved event is sent,
\* whether or not another save is in flight at that moment.
C27_SolvedSnapshotSaved ==
  HasSolvedEvent(logger) => SolvedSnapshotSent

----------------------------------------------------------------------------
(* SpecGrader: validateSolutionLocally on canonical texts and candidate    *)
(* arrangements of up to MaxLines lines.                                   *)

Spaces(n) == [i \in 1..n |-> " "]

CanonicalLines ==
  { <<"a">>, Spaces(IndentUnit) \o <<"a">>, <<"b">>, Spaces(2) \o <<"b">>,
    <<"a", " ", Marker>>, <<>>, Spaces(2) }

CandidateLines ==
  { <<"a">>, Spaces(2) \o <<"a">>, Spaces(IndentUnit) \o <<"a">>, <<"b">>,
    <<"a", " ">> }

SeqsUpTo(S, n) == UNION {[1..k -> S] : k \in 0..n}

\* Array.prototype.join('\n')
RECURSIVE JoinLines(_)
JoinLines(lines) ==
  IF lines = <<>> THEN <<>>
  ELSE IF Len(lines) = 1 THEN lines[1]
  ELSE lines[1] \o <<NewLine>> \o JoinLines(Tail(lines))

InitGrader ==
  /\ now = StartClock
  /\ logger = NewLogger(StartClock)
  /\ snap = NoSnap
  /\ pc = 0
  /\ widget = NoWidget
  /\ trace = NoTrace
  /\ saver = NoSaver
  /\ \E canon \in SeqsUpTo(CanonicalLines, MaxLines),
        solution \in SeqsUpTo(CandidateLines, MaxLines),
        canIndent \in BOOLEAN :
       grader = [ graded |-> FALSE, canon |-> canon, initial |-> JoinLines(canon),
                  canIndent |-> canIndent, solution |-> solution ]

\* validationService.validateSolutionLocally(settings, solution)
Validate ==
  /\ ~grader.graded
  /\ grader' = [ graded |-> TRUE, canon |-> grader.canon, initial |-> grader.initial,
                 canIndent |-> grader.canIndent, solution |-> grader.solution,
                 result |-> validateSolutionLocally(grader.initial, grader.canIndent,
                                                    grader.solution) ]
  /\ UNCHANGED <<now, logger, snap, pc, widget, trace, saver>>

NextGrader == Validate

SpecGrader == InitGrader /\ [][NextGrader]_vars

\* the stated verdict rule: blank lines, tags, trimmed text and depth of a
\* line, by position and not by scanning
LeadingBlanks(line) ==
  CHOOSE k \in 0..Len(line) :
    /\ \A i \in 1..k : IsSpace(line[i])
    /\ k < Len(line) => ~IsSpace(line[k + 1])

TrailingBlanks(line) ==
  CHOOSE k \in 0..Len(line) :
    /\ \A i \in 1..k : IsSpace(line[Len(line) + 1 - i])
    /\ k < Len(line) => ~IsSpace(line[Len(line) - k])

IsBlank(line) == \A i \in 1..Len(line) : IsSpace(line[i])

IsTagged(line) == \E i \in 1..Len(line) : line[i] = Marker

TrimmedText(line) ==
  IF IsBlank(line) THEN <<>>
  ELSE SubSeq(line, LeadingBlanks(line) + 1, Len(line) - TrailingBlanks(line))

Depth(line) ==
  CHOOSE d \in 0..Len(line) :
    d * IndentUnit <= LeadingBlanks(line) /\ LeadingBlanks(line) < (d + 1) * IndentUnit

\* the expected solution: the canonical lines without the blank and the
\* tagged ones, in their order; an empty canonical text is one blank line
Expected ==
  SelectSeq(grader.canon, LAMBDA line : ~IsBlank(line) /\ ~IsTagged(line))

ContentMismatch(i) == TrimmedText(grader.solution[i]) # TrimmedText(Expected[i])

IndentMismatch(i) ==
  grader.canIndent /\ Depth(grader.solution[i]) # Depth(Expected[i])

SameLength == Len(grader.solution) = Len(Expected)

\* the candidate with every line rewritten as Depth(line) full indents and
\* its trimmed text
Reindented ==
  [i \in 1..Len(grader.solution) |->
     Spaces(Depth(grader.solution[i]) * IndentUnit) \o TrimmedText(grader.solution[i])]

\* C7: isCorrect is true exactly when the candidate has as many lines as the
\* expected solution, every line's trimmed text equals the expected line's
\* and, with indentation enabled, every line's depth equals the expected
\* depth; leading whitespace that keeps the depth keeps the verdict.
C7_VerdictRule ==
  grader.graded =>
    /\ grader.result.isCorrect <=>
         ( /\ SameLength
           /\ \A i \in 1..Len(Expected) : ~ContentMismatch(i) /\ ~IndentMismatch(i) )
    /\ validateSolutionLocally(grader.initial, grader.canIndent, Reindented).isCorrect
         = grader.result.isCorrect

\* a correct verdict with indentation enabled, on a canonical text with a
\* blank and a tagged line, for a candidate with spare blanks
C7_Witness ==
  /\ grader.graded /\ grader.result.isCorrect /\ grader.canIndent
  /\ Len(grader.canon) > Len(Expected) /\ Len(Expected) >= 1
  /\ \E i \in 1..Len(grader.solution) :
       /\ LeadingBlanks(grader.solution[i]) > 0
       /\ Depth(grader.solution[i]) = 0

\* C8: the diagnostic returned is the one of highest priority, length before
\* content before indentation: with equal line counts and a content mismatch
\* somewhere, the content diagnostic of the first mismatching line is returned
\* even when another position has an indentation mismatch.
C8_DiagnosticPriority ==
  grader.graded =>
    IF ~SameLength THEN grader.result.kind = "length"
    ELSE IF \E i \in 1..Len(Expected) : ContentMismatch(i)
      THEN /\ grader.result.kind = "content"
           /\ ContentMismatch(grader.result.line)
           /\ \A j \in 1..(grader.result.line - 1) : ~ContentMismatch(j)
    ELSE IF \E i \in 1..Len(Expected) : IndentMismatch(i)
      THEN /\ grader.result.kind = "indentation"
           /\ IndentMismatch(grader.result.line)
           /\ grader.result.expected = Depth(Expected[grader.result.line])
           /\ grader.result.actual = Depth(grader.solution[grader.result.line])
    ELSE grader.result.kind = "correct"

----------------------------------------------------------------------------
(* SpecRoute: the same settings and candidate given to the API route and   *)
(* to validateSolutionLocally; the candidate may hold blank lines.         *)

RouteCandidateLines == CandidateLines \cup {<<>>, Spaces(2)}

InitRoute ==
  /\ now = StartClock
  /\ logger = NewLogger(StartClock)
  /\ snap = NoSnap
  /\ pc = 0
  /\ widget = NoWidget
  /\ trace = NoTrace
  /\ saver = NoSaver
  /\ \E canon \in SeqsUpTo(CanonicalLines, MaxLines),
        solution \in SeqsUpTo(RouteCandidateLines, MaxLines),
        canIndent \in BOOLEAN :
       grader = [ graded |-> FALSE, canon |-> canon, initial |-> JoinLines(canon),
                  canIndent |-> canIndent, solution |-> solution ]

\* the page posts the candidate to the route and grades it locally
ValidateBoth ==
  /\ ~grader.graded
  /\ grader' = [ graded |-> TRUE, canon |-> grader.canon, initial |-> grader.initial,
                 canIndent |-> grader.canIndent, solution |-> grader.solution,
                 result |-> validateSolutionLocally(grader.initial, grader.canIndent,
                                                    grader.solution),
                 route |-> handler(grader.initial, grader.solution) ]
  /\ UNCHANGED <<now, logger, snap, pc, widget, trace, saver>>

NextRoute == ValidateBoth

SpecRoute == InitRoute /\ [][NextRoute]_vars

NoBlankCandidateLine ==
  \A i \in 1..Len(grader.solution) : ~IsBlank(grader.solution[i])

\* C30: with indentation disabled and a candidate without blank lines the
\* API route and validateSolutionLocally return the same isCorrect and the
\* same details text, for every canonical text and candidate.
C30_RouteAgreesWithLocal ==
  (grader.graded /\ ~grader.canIndent /\ NoBlankCandidateLine) =>
    grader.route = grader.result

\* both accept a candidate whose lines are indented otherwise than the
\* canonical ones
C30_Witness ==
  /\ grader.graded /\ ~grader.canIndent /\ NoBlankCandidateLine
  /\ grader.route.isCorrect /\ grader.result.isCorrect
  /\ Len(grader.solution) = 2
  /\ \E i \in 1..2 : Depth(grader.solution[i]) # Depth(Expected[i])

====
